---- MODULE Spec2Model ----
(***************************************************************************)
(* Model of the deal-intake endpoint (api/submit handler): the in-memory   *)
(* rate limiter, the multipart parse and attachment validation, the field  *)
(* validation, the sequential storage uploads and the webhook relay.       *)
(*                                                                         *)
(* Two specifications share the variables:                                 *)
(*   SpecRL  drives checkRateLimit directly, for any caller at any time,   *)
(*           and records every call and its result in the history          *)
(*           variable callLog;                                             *)
(*   Spec    runs the handler, one await point per step.  Invocations      *)
(*           share nothing but rateLimitStore, which an invocation reads   *)
(*           and writes only between its entry and its first await, a      *)
(*           stretch that runs to completion; the invocations are          *)
(*           therefore taken one after the other, in the order of their    *)
(*           entries.  The clock stands still in Spec (the requests fall   *)
(*           in one rate-limit window); what the limiter does as time      *)
(*           passes is SpecRL's subject.                                   *)
(***************************************************************************)
EXTENDS Integers, Sequences, FiniteSets, TLC

\* ------------------------------------------------------------ bounds
\* Number of clock advances in one behaviour.
MaxTicks == 2
\* Number of checkRateLimit calls recorded in one behaviour of SpecRL.
MaxCalls == 12
\* Number of file parts in one request body.
MaxParts == 2

\* ------------------------------------------------------- configuration
RATE_LIMIT_WINDOW_MS == 60 * 1000
RATE_LIMIT_MAX_REQUESTS == 10

\* Caller keys of the rate-limit table: one forwarded address, and the
\* fallback sentinel used when no address header is present.
Keys == {"a", "unknown"}

\* Amounts by which the clock (Date.now(), in ms) advances between steps.
TickSteps == {1, RATE_LIMIT_WINDOW_MS}

NoEntry == [count |-> 0, timestamp |-> -1]

VARIABLES
    now,             \* Date.now()
    ticks,           \* clock advances so far
    rateLimitStore,  \* Map: key -> {count, timestamp}, NoEntry when absent
    callLog,         \* history: per key, the calls made and their results
    env,             \* process.env: which settings are present
    pc,              \* where the handler invocation stands
    request,         \* the request of the invocation
    rateLimit,       \* handler local: what checkRateLimit returned
    fields,          \* handler local: text fields of the parsed body
    files,           \* handler local: file parts accepted by the parse
    uploadedFiles,   \* handler local: results of uploadToSupabase
    storageCalls,    \* history: storage requests of this invocation
    webhookCalls,    \* history: webhook requests of this invocation
    gates,           \* history: gates the invocation evaluated, in order
    response,        \* the Response the invocation returned
    sanitizer,       \* a string and what sanitizing it once and twice gives
    cors,            \* ALLOWED_ORIGINS, a request origin and the CORS header
    clientFiles,     \* App state: files
    clientOp         \* history: the last operation on files and the list before

rlVars == <<now, ticks, rateLimitStore, callLog>>
handlerVars == <<env, pc, request, rateLimit, fields, files, uploadedFiles,
                 storageCalls, webhookCalls, gates, response>>
\* State of the parts checked on their own: sanitizer, CORS, client form.
auxVars == <<sanitizer, cors, clientFiles, clientOp>>
vars == <<now, ticks, rateLimitStore, callLog, env, pc, request, rateLimit,
          fields, files, uploadedFiles, storageCalls, webhookCalls, gates,
          response, sanitizer, cors, clientFiles, clientOp>>

\* ------------------------------------------------------- rate limiter
\* (variant: the window is taken twice as long)
Expired_DoubleWindow(data, t) == data.timestamp < t - 2 * RATE_LIMIT_WINDOW_MS

\* data.timestamp < windowStart, with windowStart = now - RATE_LIMIT_WINDOW_MS
Expired(data, t) == data.timestamp < t - RATE_LIMIT_WINDOW_MS

\* (variant: every entry older than the call is deleted)
Pruned_Eager(store, t) ==
    [k \in Keys |-> IF store[k] # NoEntry /\ store[k].timestamp < t
                    THEN NoEntry ELSE store[k]]

\* the loop "Clean old entries": every expired entry is deleted
Pruned(store, t) ==
    [k \in Keys |-> IF store[k] # NoEntry /\ Expired(store[k], t)
                    THEN NoEntry ELSE store[k]]

\* (variant: the comparison is strict)
OverLimit_Strict(data) == data.count > RATE_LIMIT_MAX_REQUESTS

\* clientData.count >= RATE_LIMIT_MAX_REQUESTS
OverLimit(data) == data.count >= RATE_LIMIT_MAX_REQUESTS

FreshEntry(t) == [count |-> 1, timestamp |-> t]

\* (variant: the count of an existing entry is never incremented)
StoreAfterCheck_NoIncrement(store, ip, t) ==
    LET pruned == Pruned(store, t)
        clientData == pruned[ip]
    IN  IF clientData = NoEntry \/ Expired(clientData, t)
        THEN [pruned EXCEPT ![ip] = FreshEntry(t)]
        ELSE pruned

\* The table after checkRateLimit(ip) called at time t.
StoreAfterCheck(store, ip, t) ==
    LET pruned == Pruned(store, t)
        clientData == pruned[ip]
    IN  IF clientData = NoEntry
        THEN [pruned EXCEPT ![ip] = FreshEntry(t)]
        ELSE IF Expired(clientData, t)
        THEN [pruned EXCEPT ![ip] = FreshEntry(t)]
        ELSE IF OverLimit(clientData)
        THEN pruned
        ELSE [pruned EXCEPT ![ip].count = clientData.count + 1]

\* The value checkRateLimit(ip) returns when called at time t.
CheckResult(store, ip, t) ==
    LET pruned == Pruned(store, t)
        clientData == pruned[ip]
    IN  IF clientData = NoEntry
        THEN [allowed |-> TRUE, remaining |-> RATE_LIMIT_MAX_REQUESTS - 1]
        ELSE IF Expired(clientData, t)
        THEN [allowed |-> TRUE, remaining |-> RATE_LIMIT_MAX_REQUESTS - 1]
        ELSE IF OverLimit(clientData)
        THEN [allowed |-> FALSE, remaining |-> 0]
        ELSE [allowed |-> TRUE,
              remaining |-> RATE_LIMIT_MAX_REQUESTS - (clientData.count + 1)]

TotalCalls == Len(callLog["a"]) + Len(callLog["unknown"])

\* One call of checkRateLimit(ip), recorded in the history.
checkRateLimit(ip) ==
    /\ TotalCalls < MaxCalls
    /\ rateLimitStore' = StoreAfterCheck(rateLimitStore, ip, now)
    /\ callLog' = [callLog EXCEPT ![ip] = Append(@,
                      [t |-> now,
                       allowed |-> CheckResult(rateLimitStore, ip, now).allowed,
                       remaining |-> CheckResult(rateLimitStore, ip, now).remaining,
                       count |-> StoreAfterCheck(rateLimitStore, ip, now)[ip].count,
                       start |-> StoreAfterCheck(rateLimitStore, ip, now)[ip].timestamp])]
    /\ UNCHANGED <<now, ticks>>
    /\ UNCHANGED handlerVars
    /\ UNCHANGED auxVars

\* Time passes.
Tick ==
    /\ ticks < MaxTicks
    /\ \E d \in TickSteps : now' = now + d
    /\ ticks' = ticks + 1
    /\ UNCHANGED <<rateLimitStore, callLog>>
    /\ UNCHANGED handlerVars
    /\ UNCHANGED auxVars

\* ------------------------------------------------------------ inputs
None == "none"

\* Values of the sanitizer, CORS and client-form state where these parts do
\* not run.
NoSanitizer == [pc |-> "off"]
NoCors == [pc |-> "off"]
NoOp == [op |-> "none"]
\* A string that is not there (undefined); strings are character sequences.
Undefined == <<"undefined">>

MAX_FILE_SIZE == 25 * 1024 * 1024
ALLOWED_MIME_TYPES ==
    {"application/pdf", "application/vnd.ms-excel",
     "application/vnd.openxmlformats-officedocument.spreadsheetml.sheet",
     "application/msword",
     "application/vnd.openxmlformats-officedocument.wordprocessingml.document",
     "text/csv", "image/jpeg", "image/png", "image/gif"}
ALLOWED_FILE_CATEGORIES ==
    {"pnl", "rentRoll", "t12", "om", "capex", "utility", "financialInfo"}

\* File parts a request may carry: field name, byte size, MIME type.
PartShapes ==
    {[fieldname |-> "financialInfo", size |-> MAX_FILE_SIZE,
      type |-> "application/pdf"],
     [fieldname |-> "rentRoll", size |-> 1024 * 1024, type |-> "text/csv"],
     [fieldname |-> "financialInfo", size |-> MAX_FILE_SIZE + 1,
      type |-> "application/pdf"],
     [fieldname |-> "rentRoll", size |-> 1024 * 1024, type |-> "text/html"],
     [fieldname |-> "bogus", size |-> 1024 * 1024, type |-> "image/png"],
     [fieldname |-> "bogus", size |-> MAX_FILE_SIZE + 1,
      type |-> "text/html"]}

\* The i-th file part of a body is named after its place in the body.
PartName(i) == <<"file", i>>

FileLists == UNION {[1..n -> PartShapes] : n \in 0..MaxParts}

\* Body of a POST: not multipart/form-data, multipart that formData() cannot
\* parse, or multipart with its file parts in arrival order.
Bodies == {[kind |-> "notMultipart", parts |-> <<>>],
           [kind |-> "malformed", parts |-> <<>>]}
          \cup {[kind |-> "multipart", parts |-> fl] : fl \in FileLists}

\* x-forwarded-for, split at the commas and trimmed, and x-real-ip.
XffValues == {Undefined, <<"a">>}
RealIpValues == {None}

Requests ==
    {[method |-> m, xff |-> x, realIp |-> r, body |-> b] :
        m \in {"OPTIONS", "GET"}, x \in {Undefined}, r \in {None},
        b \in {[kind |-> "notMultipart", parts |-> <<>>]}}
    \cup [method : {"POST"}, xff : XffValues, realIp : RealIpValues,
          body : Bodies]

NoRequest == [method |-> None]

\* Text fields are strings, modelled as sequences of characters; Undefined
\* when the body has no such field.
PropertyNames == {<<" ", "a">>, <<"a", "b">>}
PropertyTypes == {Undefined, <<"M", "H", "P">>}
SubmitterNames == {Undefined, <<"J", "o">>}
SubmitterPhones == {<<>>, <<"5", "5", "5">>}
SubmitterEmails == {Undefined, <<"a", "@", "b">>, <<"a", "@", "b", ".", "c">>}
Acknowledgements == {<<"f", "a", "l", "s", "e">>, <<"t", "r", "u", "e">>}

FieldSets ==
    [propertyName : PropertyNames, propertyType : PropertyTypes,
     submitterName : SubmitterNames, submitterPhone : SubmitterPhones,
     submitterEmail : SubmitterEmails,
     finalAcknowledgement : Acknowledgements]

NoFields == [propertyName |-> Undefined]

\* process.env: TRUE when the setting is present.
Envs == [WEBHOOK_URL : BOOLEAN, SUPABASE_URL : BOOLEAN,
         SUPABASE_SERVICE_KEY : BOOLEAN]

\* ------------------------------------------------------ field validation
IsSpace(c) == c \in {" ", "\t", "\n"}

RECURSIVE TrimStart(_)
TrimStart(s) ==
    IF s # <<>> /\ IsSpace(Head(s)) THEN TrimStart(Tail(s)) ELSE s

RECURSIVE TrimEnd(_)
TrimEnd(s) ==
    IF s # <<>> /\ IsSpace(s[Len(s)])
    THEN TrimEnd(SubSeq(s, 1, Len(s) - 1)) ELSE s

\* String.prototype.trim
Trim(s) == TrimEnd(TrimStart(s))

\* !value for a field: absent or the empty string
Falsy(v) == v = Undefined \/ v = <<>>

\* /^[^\s@]+@[^\s@]+\.[^\s@]+$/.test(s)
EmailRegexTest(s) ==
    \E at \in 1..Len(s), dot \in 1..Len(s) :
        /\ s[at] = "@"
        /\ s[dot] = "."
        /\ 1 < at
        /\ at + 1 < dot
        /\ dot < Len(s)
        /\ \A i \in 1..Len(s) : ~IsSpace(s[i]) /\ (s[i] = "@" => i = at)

\* (variant: validation stops at the first error)
ValidationErrors_FirstOnly(body) ==
    IF Falsy(body.propertyName) \/ Len(Trim(body.propertyName)) < 2
    THEN <<"Property Name is required and must be at least 2 characters">>
    ELSE IF Falsy(body.propertyType)
    THEN <<"Property Type is required">>
    ELSE IF Falsy(body.submitterName) \/ Len(Trim(body.submitterName)) < 2
    THEN <<"Your Name is required and must be at least 2 characters">>
    ELSE IF Falsy(body.submitterPhone)
    THEN <<"Your Phone is required">>
    ELSE IF Falsy(body.submitterEmail)
    THEN <<"Your Email is required">>
    ELSE IF ~EmailRegexTest(body.submitterEmail)
    THEN <<"Invalid email format">>
    ELSE IF body.finalAcknowledgement # <<"t", "r", "u", "e">>
    THEN <<"Final acknowledgement is required">>
    ELSE <<>>

\* The errors validateFormData(body) pushes, in order.
ValidationErrors(body) ==
    (IF Falsy(body.propertyName) \/ Len(Trim(body.propertyName)) < 2
     THEN <<"Property Name is required and must be at least 2 characters">>
     ELSE <<>>)
    \o (IF Falsy(body.propertyType)
        THEN <<"Property Type is required">> ELSE <<>>)
    \o (IF Falsy(body.submitterName) \/ Len(Trim(body.submitterName)) < 2
        THEN <<"Your Name is required and must be at least 2 characters">>
        ELSE <<>>)
    \o (IF Falsy(body.submitterPhone)
        THEN <<"Your Phone is required">> ELSE <<>>)
    \o (IF Falsy(body.submitterEmail)
        THEN <<"Your Email is required">>
        ELSE IF ~EmailRegexTest(body.submitterEmail)
        THEN <<"Invalid email format">> ELSE <<>>)
    \o (IF body.finalAcknowledgement # <<"t", "r", "u", "e">>
        THEN <<"Final acknowledgement is required">> ELSE <<>>)

\* ------------------------------------------------------------ multipart
NoError == <<>>

\* The Error parseMultipartFormData throws for a file part, NoError if it
\* accepts the part.  The checks run in the order size, type, category.
PartError(part, name) ==
    IF part.size > MAX_FILE_SIZE
    THEN <<"File", name, "exceeds maximum size of 25MB">>
    ELSE IF part.type \notin ALLOWED_MIME_TYPES
    THEN <<"File type", part.type, "is not allowed for", name>>
    ELSE IF part.fieldname \notin ALLOWED_FILE_CATEGORIES
    THEN <<"Invalid file category:", part.fieldname>>
    ELSE NoError

\* Places of the parts the loop over formData.entries() rejects.
BadParts(parts) ==
    {i \in 1..Len(parts) : PartError(parts[i], PartName(i)) # NoError}

\* (variant: the last rejected part is reported)
FirstBad_Last(parts) ==
    CHOOSE i \in BadParts(parts) : \A j \in BadParts(parts) : i >= j

FirstBad(parts) ==
    CHOOSE i \in BadParts(parts) : \A j \in BadParts(parts) : i <= j

\* files.push({fieldname, originalname, mimetype, size, buffer})
ParsedFiles(parts) ==
    [i \in 1..Len(parts) |->
        [fieldname |-> parts[i].fieldname, originalname |-> PartName(i),
         mimetype |-> parts[i].type, size |-> parts[i].size]]

\* The message parseMultipartFormData throws for a body, NoError if it
\* returns.
ParseError(body) ==
    IF body.kind = "notMultipart"
    THEN <<"Invalid content type. Expected multipart/form-data">>
    ELSE IF body.kind = "malformed"
    THEN <<"formData() failed">>
    ELSE IF BadParts(body.parts) # {}
    THEN PartError(body.parts[FirstBad(body.parts)],
                   PartName(FirstBad(body.parts)))
    ELSE NoError

\* (variant: any accepted file satisfies the required-file check)
HasFinancialInfo_AnyFile(fs) == fs # <<>>

\* uploadedCategories.has('financialInfo')
HasFinancialInfo(fs) ==
    "financialInfo" \in {fs[i].fieldname : i \in 1..Len(fs)}

\* (variant: the required-file check runs only when the fields are valid)
AllErrors_FileCheckLast(body, fs) ==
    IF ValidationErrors(body) # <<>>
    THEN ValidationErrors(body)
    ELSE IF ~HasFinancialInfo(fs)
    THEN <<"Financial Information document is required">> ELSE <<>>

\* errors after the required-file check
AllErrors(body, fs) ==
    ValidationErrors(body)
    \o (IF ~HasFinancialInfo(fs)
        THEN <<"Financial Information document is required">> ELSE <<>>)

\* -------------------------------------------------------------- handler
NoResponse == [status |-> 0]
NoResult == [allowed |-> FALSE, remaining |-> -1]

\* String(n) for the numbers a header carries
NumStr(n) == <<"0", "1", "2", "3", "4", "5", "6", "7", "8", "9">>[n + 1]

\* new Response(body, {status, headers}): body is FALSE for a null body;
\* error is <<>>, retryAfter 0 and a header None when not there.
Resp(status, success, error, details) ==
    [status |-> status, body |-> TRUE, success |-> success, error |-> error,
     details |-> details, retryAfter |-> 0,
     RetryAfterHeader |-> None, XRateLimitRemaining |-> None]

Resp204 == [Resp(204, FALSE, <<>>, <<>>) EXCEPT !.body = FALSE]

Resp429 ==
    [Resp(429, FALSE, <<"Too many requests. Please try again later.">>, <<>>)
        EXCEPT !.retryAfter = 60, !.RetryAfterHeader = "60",
               !.XRateLimitRemaining = "0"]

Resp200(rl) ==
    [Resp(200, TRUE, <<>>, <<>>)
        EXCEPT !.XRateLimitRemaining = NumStr(rl.remaining)]

\* x-forwarded-for's first element, else x-real-ip, else 'unknown'
ClientIp(req) ==
    IF req.xff # Undefined /\ Head(req.xff) # ""
    THEN Head(req.xff)
    ELSE IF req.realIp # None /\ req.realIp # ""
    THEN req.realIp
    ELSE "unknown"

\* (variant: every request but the preflight reaches the rate-limit gate)
ReachesRateLimit_AllButPreflight(req) == req.method # "OPTIONS"

\* Whether the invocation reaches checkRateLimit.
ReachesRateLimit(req) == req.method # "OPTIONS" /\ req.method = "POST"

\* (variant: the configuration is checked before anything else)
SyncPrefix_ConfigFirst(req, e, rl) ==
    IF ~e.WEBHOOK_URL \/ ~e.SUPABASE_URL \/ ~e.SUPABASE_SERVICE_KEY
    THEN [pc |-> "done", gates |-> <<"config">>,
          response |-> Resp(500, FALSE, <<"Server configuration error">>, <<>>)]
    ELSE IF req.method = "OPTIONS"
    THEN [pc |-> "done", gates |-> <<"preflight">>,
          response |-> Resp204]
    ELSE IF req.method # "POST"
    THEN [pc |-> "done", gates |-> <<"preflight", "method">>,
          response |-> Resp(405, FALSE, <<"Method not allowed">>, <<>>)]
    ELSE IF ~rl.allowed
    THEN [pc |-> "done", gates |-> <<"preflight", "method", "rateLimit">>,
          response |-> Resp429]
    ELSE IF req.body.kind = "notMultipart"
    THEN [pc |-> "done",
          gates |-> <<"preflight", "method", "rateLimit", "config", "parse">>,
          response |-> Resp(400, FALSE, ParseError(req.body), <<>>)]
    ELSE [pc |-> "formData",
          gates |-> <<"preflight", "method", "rateLimit", "config", "parse">>,
          response |-> NoResponse]

\* (variant: the rate limit is checked after the configuration)
SyncPrefix_RateLimitAfterConfig(req, e, rl) ==
    IF req.method = "OPTIONS"
    THEN [pc |-> "done", gates |-> <<"preflight">>,
          response |-> Resp204]
    ELSE IF req.method # "POST"
    THEN [pc |-> "done", gates |-> <<"preflight", "method">>,
          response |-> Resp(405, FALSE, <<"Method not allowed">>, <<>>)]
    ELSE IF ~e.WEBHOOK_URL \/ ~e.SUPABASE_URL \/ ~e.SUPABASE_SERVICE_KEY
    THEN [pc |-> "done", gates |-> <<"preflight", "method", "config">>,
          response |-> Resp(500, FALSE, <<"Server configuration error">>, <<>>)]
    ELSE IF ~rl.allowed
    THEN [pc |-> "done",
          gates |-> <<"preflight", "method", "config", "rateLimit">>,
          response |-> Resp429]
    ELSE IF req.body.kind = "notMultipart"
    THEN [pc |-> "done",
          gates |-> <<"preflight", "method", "config", "rateLimit", "parse">>,
          response |-> Resp(400, FALSE, ParseError(req.body), <<>>)]
    ELSE [pc |-> "formData",
          gates |-> <<"preflight", "method", "config", "rateLimit", "parse">>,
          response |-> NoResponse]

\* The handler from its entry to its first await: the gates it evaluates,
\* and the response it returns or the await it stops at.  rl is what
\* checkRateLimit returned (read only when the rate-limit gate is reached).
SyncPrefix(req, e, rl) ==
    IF req.method = "OPTIONS"
    THEN [pc |-> "done", gates |-> <<"preflight">>,
          response |-> Resp204]
    ELSE IF req.method # "POST"
    THEN [pc |-> "done", gates |-> <<"preflight", "method">>,
          response |-> Resp(405, FALSE, <<"Method not allowed">>, <<>>)]
    ELSE IF ~rl.allowed
    THEN [pc |-> "done", gates |-> <<"preflight", "method", "rateLimit">>,
          response |-> Resp429]
    ELSE IF ~e.WEBHOOK_URL
    THEN [pc |-> "done",
          gates |-> <<"preflight", "method", "rateLimit", "config">>,
          response |-> Resp(500, FALSE, <<"Server configuration error">>, <<>>)]
    ELSE IF ~e.SUPABASE_URL \/ ~e.SUPABASE_SERVICE_KEY
    THEN [pc |-> "done",
          gates |-> <<"preflight", "method", "rateLimit", "config">>,
          response |-> Resp(500, FALSE, <<"Storage configuration error">>, <<>>)]
    ELSE IF req.body.kind = "notMultipart"
    THEN [pc |-> "done",
          gates |-> <<"preflight", "method", "rateLimit", "config", "parse">>,
          response |-> Resp(400, FALSE, ParseError(req.body), <<>>)]
    ELSE [pc |-> "formData",
          gates |-> <<"preflight", "method", "rateLimit", "config", "parse">>,
          response |-> NoResponse]

\* The handler invoked with req, from its entry to its first await.
HandlerEntry(req) ==
    /\ request' = req
    /\ LET rl == IF ReachesRateLimit(req)
                 THEN CheckResult(rateLimitStore, ClientIp(req), now)
                 ELSE NoResult
           out == SyncPrefix(req, env, rl)
       IN  /\ rateLimit' = rl
           /\ rateLimitStore' =
                 IF ReachesRateLimit(req)
                 THEN StoreAfterCheck(rateLimitStore, ClientIp(req), now)
                 ELSE rateLimitStore
           /\ pc' = out.pc
           /\ gates' = out.gates
           /\ response' = out.response
    /\ UNCHANGED <<now, ticks, callLog, env, fields, files, uploadedFiles,
                   storageCalls, webhookCalls>>
    /\ UNCHANGED auxVars

\* A request arrives and the handler runs to its first await.
HandlerStart ==
    /\ pc = "idle"
    /\ \E req \in Requests : HandlerEntry(req)

\* From the parsed body to the first storage request: validateFormData and
\* the required-file check on the text fields f and the accepted files fs.
Validate(f, fs) ==
    LET errors == AllErrors(f, fs)
    IN  IF errors # <<>>
        THEN [pc |-> "done",
              response |-> Resp(400, FALSE, <<"Validation failed">>, errors)]
        ELSE [pc |-> "upload", response |-> NoResponse]

\* request.formData() throws, or the loop over the entries rejects a part.
ParseFails ==
    /\ pc = "formData"
    /\ ParseError(request.body) # NoError
    /\ pc' = "done"
    /\ response' = Resp(400, FALSE, ParseError(request.body), <<>>)
    /\ UNCHANGED <<now, ticks, rateLimitStore, callLog, env, request,
                   rateLimit, fields, files, uploadedFiles, storageCalls,
                   webhookCalls, gates>>
    /\ UNCHANGED auxVars

\* request.formData() delivers the text fields f and every part is accepted.
ParseDelivers(f) ==
    /\ fields' = f
    /\ files' = ParsedFiles(request.body.parts)
    /\ gates' = Append(gates, "validate")
    /\ LET out == Validate(f, ParsedFiles(request.body.parts))
       IN  /\ pc' = out.pc
           /\ response' = out.response
    /\ UNCHANGED <<now, ticks, rateLimitStore, callLog, env, request,
                   rateLimit, uploadedFiles, storageCalls, webhookCalls>>
    /\ UNCHANGED auxVars

\* The body is parsed and validated.
ParseStep ==
    /\ pc = "formData"
    /\ ParseError(request.body) = NoError
    /\ \E f \in FieldSets : ParseDelivers(f)

FetchOutcomes == {"ok", "notOk", "throws"}

\* filePath and publicUrl of uploadToSupabase
FilePath(file, t) == <<"uploads", t, file.originalname>>
PublicUrl(path) == <<"public", path>>

\* What uploadToSupabase returns.
UploadResult(file, t) ==
    [category |-> file.fieldname, originalname |-> file.originalname,
     url |-> PublicUrl(FilePath(file, t)), key |-> FilePath(file, t)]

\* The file the upload loop is at.
NextFile == files[Len(uploadedFiles) + 1]

\* After a successful upload: the next iteration, or the webhook request.
AfterUpload(n) == IF n = Len(files) THEN "webhook" ELSE "upload"

\* (variant: a non-2xx answer of the storage is not treated as a failure)
UploadFailed_ThrowOnly(outcome) == outcome = "throws"

\* uploadToSupabase throws: fetch threw, or the answer is not ok
UploadFailed(outcome) == outcome # "ok"

\* The storage request for the current file settles.
UploadStep(outcome) ==
    /\ pc = "upload"
    /\ storageCalls' = Append(storageCalls,
           [method |-> "POST", key |-> FilePath(NextFile, now),
            category |-> NextFile.fieldname,
            originalname |-> NextFile.originalname, outcome |-> outcome])
    /\ gates' = Append(gates, "upload")
    /\ IF ~UploadFailed(outcome)
       THEN /\ uploadedFiles' =
                  Append(uploadedFiles, UploadResult(NextFile, now))
            /\ pc' = AfterUpload(Len(uploadedFiles) + 1)
            /\ UNCHANGED response
       ELSE /\ pc' = "done"
            /\ response' = Resp(500, FALSE,
                   <<"Failed to upload file:", NextFile.originalname>>, <<>>)
            /\ UNCHANGED uploadedFiles
    /\ UNCHANGED <<now, ticks, rateLimitStore, callLog, env, request,
                   rateLimit, fields, files, webhookCalls>>
    /\ UNCHANGED auxVars

\* (variant: the first file of a category is kept)
FilesByCategory_First(ups) ==
    [c \in {ups[i].category : i \in 1..Len(ups)} |->
        LET first == CHOOSE i \in 1..Len(ups) :
                        /\ ups[i].category = c
                        /\ \A j \in 1..Len(ups) : ups[j].category = c => i <= j
        IN  [originalname |-> ups[first].originalname, url |-> ups[first].url]]

\* uploadedFiles.reduce: a later file of a category replaces an earlier one
FilesByCategory(ups) ==
    [c \in {ups[i].category : i \in 1..Len(ups)} |->
        LET last == CHOOSE i \in 1..Len(ups) :
                        /\ ups[i].category = c
                        /\ \A j \in 1..Len(ups) : ups[j].category = c => j <= i
        IN  [originalname |-> ups[last].originalname, url |-> ups[last].url]]

\* webhookPayload (the sanitized text fields are left out)
WebhookPayload(ups, ip) ==
    [clientIp |-> ip,
     files |-> FilesByCategory(ups),
     fileUrls |-> [i \in 1..Len(ups) |-> ups[i].url]]

\* (variant: a non-2xx answer of the webhook is reported like a thrown one)
WebhookResponse_NotOkGeneric(outcome, rl) ==
    IF outcome = "ok"
    THEN Resp200(rl)
    ELSE Resp(500, FALSE,
              <<"An unexpected error occurred. Please try again.">>, <<>>)

\* (variant: only a thrown webhook request is a failure)
WebhookResponse_NotOkIs200(outcome, rl) ==
    IF outcome = "throws"
    THEN Resp(500, FALSE,
              <<"An unexpected error occurred. Please try again.">>, <<>>)
    ELSE Resp200(rl)

\* (variant: a thrown webhook request leaves the invocation without response)
WebhookResponse_ThrowEscapes(outcome, rl) ==
    IF outcome = "throws"
    THEN NoResponse
    ELSE IF outcome = "notOk"
    THEN Resp(502, FALSE,
              <<"Failed to process submission. Please try again.">>, <<>>)
    ELSE Resp200(rl)

\* The response after the webhook request settled.
WebhookResponse(outcome, rl) ==
    IF outcome = "throws"
    THEN Resp(500, FALSE,
              <<"An unexpected error occurred. Please try again.">>, <<>>)
    ELSE IF outcome = "notOk"
    THEN Resp(502, FALSE,
              <<"Failed to process submission. Please try again.">>, <<>>)
    ELSE Resp200(rl)

\* The webhook request settles.
WebhookStep(outcome) ==
    /\ pc = "webhook"
    /\ webhookCalls' = Append(webhookCalls,
           [payload |-> WebhookPayload(uploadedFiles, ClientIp(request)),
            outcome |-> outcome])
    /\ gates' = Append(gates, "webhook")
    /\ response' = WebhookResponse(outcome, rateLimit)
    /\ pc' = "done"
    /\ UNCHANGED <<now, ticks, rateLimitStore, callLog, env, request,
                   rateLimit, fields, files, uploadedFiles, storageCalls>>
    /\ UNCHANGED auxVars

\* The invocation has returned its response; its locals are dropped.
Return ==
    /\ pc = "done"
    /\ pc' = "idle"
    /\ request' = NoRequest
    /\ rateLimit' = NoResult
    /\ fields' = NoFields
    /\ files' = <<>>
    /\ uploadedFiles' = <<>>
    /\ storageCalls' = <<>>
    /\ webhookCalls' = <<>>
    /\ gates' = <<>>
    /\ response' = NoResponse
    /\ UNCHANGED <<now, ticks, rateLimitStore, callLog, env>>
    /\ UNCHANGED auxVars

\* The handler is not running and the rate-limit table is empty.
HandlerInit ==
    /\ now = 0
    /\ ticks = 0
    /\ rateLimitStore = [k \in Keys |-> NoEntry]
    /\ callLog = [k \in Keys |-> <<>>]
    /\ env \in Envs
    /\ pc = "idle"
    /\ request = NoRequest
    /\ rateLimit = NoResult
    /\ fields = NoFields
    /\ files = <<>>
    /\ uploadedFiles = <<>>
    /\ storageCalls = <<>>
    /\ webhookCalls = <<>>
    /\ gates = <<>>
    /\ response = NoResponse

Init ==
    /\ HandlerInit
    /\ sanitizer = NoSanitizer
    /\ cors = NoCors
    /\ clientFiles = <<>>
    /\ clientOp = NoOp

Next ==
    \/ HandlerStart
    \/ ParseFails
    \/ ParseStep
    \/ \E o \in FetchOutcomes : UploadStep(o)
    \/ \E o \in FetchOutcomes : WebhookStep(o)
    \/ Return

Spec == Init /\ [][Next]_vars

\* The handler with time passing between invocations.  Requests carry at
\* most one part, a valid financialInfo file; the text fields are complete
\* and differ in the e-mail address only.
QuotaRequests ==
    {req \in Requests :
        /\ Len(req.body.parts) <= 1
        /\ \A i \in 1..Len(req.body.parts) :
               /\ PartError(req.body.parts[i], PartName(i)) = NoError
               /\ req.body.parts[i].fieldname = "financialInfo"}

SampleFieldSets ==
    {f \in FieldSets :
        /\ f.propertyName = <<"a", "b">>
        /\ f.propertyType # Undefined
        /\ f.submitterName # Undefined
        /\ f.submitterPhone # <<>>
        /\ f.submitterEmail # Undefined
        /\ f.finalAcknowledgement = <<"t", "r", "u", "e">>}

QuotaHandlerStart ==
    /\ pc = "idle"
    /\ \E req \in QuotaRequests : HandlerEntry(req)

SampleParseStep ==
    /\ pc = "formData"
    /\ ParseError(request.body) = NoError
    /\ \E f \in SampleFieldSets : ParseDelivers(f)

\* Time passes between two invocations.
IdleTick ==
    /\ pc = "idle"
    /\ Tick

NextQuota ==
    \/ QuotaHandlerStart
    \/ ParseFails
    \/ SampleParseStep
    \/ \E o \in FetchOutcomes : UploadStep(o)
    \/ \E o \in FetchOutcomes : WebhookStep(o)
    \/ Return
    \/ IdleTick

SpecQuota == Init /\ [][NextQuota]_vars

\* The handler when every external call it awaits settles: the body parse,
\* each storage request and the webhook request return or throw.  Requests
\* are any of Requests, the text fields those of SampleFieldSets.
NextSettling ==
    \/ HandlerStart
    \/ ParseFails
    \/ SampleParseStep
    \/ \E o \in FetchOutcomes : UploadStep(o)
    \/ \E o \in FetchOutcomes : WebhookStep(o)
    \/ Return

SpecSettling ==
    /\ Init
    /\ [][NextSettling]_vars
    /\ WF_vars(ParseFails \/ SampleParseStep)
    /\ WF_vars(\E o \in FetchOutcomes : UploadStep(o))
    /\ WF_vars(\E o \in FetchOutcomes : WebhookStep(o))

\* The rate limiter alone: any caller calls checkRateLimit at any time.
InitRL == Init /\ env = [WEBHOOK_URL |-> TRUE, SUPABASE_URL |-> TRUE,
                         SUPABASE_SERVICE_KEY |-> TRUE]

NextRL ==
    \/ \E ip \in Keys : checkRateLimit(ip)
    \/ Tick

SpecRL == InitRL /\ [][NextRL]_vars

\* ------------------------------------------------------------ sanitizer
\* The strings the sanitizer is run on are made of up to MaxPieces of these
\* pieces, and of such strings behind a filling that brings them to the
\* length cap.
MaxPieces == 3
MaxTail == 2
MAX_SANITIZED_LENGTH == 10000

Pieces ==
    {<<"<", "s", "c", "r", "i", "p", "t", ">">>,
     <<"<", "S", "C", "R", "I", "P", "T", " ">>,
     <<"<", "/", "s", "c", "r", "i", "p", "t", ">">>,
     <<"<", "s", "c", "r">>,
     <<"i", "p", "t", ">">>,
     <<"<">>, <<">">>, <<" ">>, <<"a">>}

RECURSIVE StringsOf(_)
StringsOf(n) ==
    IF n = 0 THEN {<<>>}
    ELSE StringsOf(n - 1)
         \cup {s \o p : s \in StringsOf(n - 1), p \in Pieces}

Filling(n) == [i \in 1..n |-> "a"]

LongStrings ==
    {Filling(MAX_SANITIZED_LENGTH - k) \o s :
        k \in 0..MaxTail, s \in StringsOf(MaxTail)}

SanitizeInputs == StringsOf(MaxPieces) \cup LongStrings

\* The i flag: the letters of the pattern match in either case.
ToLower(c) ==
    CASE c = "S" -> "s" [] c = "C" -> "c" [] c = "R" -> "r"
      [] c = "I" -> "i" [] c = "P" -> "p" [] c = "T" -> "t"
      [] OTHER -> c

\* \w, over the characters of the inputs
IsWordChar(c) ==
    c \in {"a", "s", "c", "r", "i", "p", "t", "S", "C", "R", "I", "P", "T"}

\* lit, in lower case, matches s at position i whatever the case
MatchesAt(s, i, lit) ==
    /\ i + Len(lit) - 1 <= Len(s)
    /\ \A k \in 1..Len(lit) : ToLower(s[i + k - 1]) = lit[k]

ScriptOpen == <<"<", "s", "c", "r", "i", "p", "t">>
ScriptClose == <<"<", "/", "s", "c", "r", "i", "p", "t", ">">>

\* <script\b matches s at position i
OpensScript(s, i) ==
    /\ MatchesAt(s, i, ScriptOpen)
    /\ LET after == i + Len(ScriptOpen)
       IN  after > Len(s) \/ ~IsWordChar(s[after])

\* Positions where [^<]*(?:(?!<\/script>)<[^<]*)*<\/script> can end a
\* block opened at i: the text between runs over every "<" that does not
\* start a closing tag, so the block ends with the first closing tag.
ClosingTags(s, i) ==
    {j \in (i + Len(ScriptOpen))..Len(s) : MatchesAt(s, j, ScriptClose)}

\* Positions where the script-block pattern matches.
ScriptBlocks(s) ==
    {i \in 1..Len(s) : OpensScript(s, i) /\ ClosingTags(s, i) # {}}

Min(S) == CHOOSE x \in S : \A y \in S : x <= y

\* replace(/<script\b...<\/script>/gi, ''): the leftmost block is removed,
\* the search goes on behind it
RECURSIVE StripScriptBlocks(_)
StripScriptBlocks(s) ==
    IF ScriptBlocks(s) = {} THEN s
    ELSE LET i == Min(ScriptBlocks(s))
             j == Min(ClosingTags(s, i))
         IN  SubSeq(s, 1, i - 1)
                 \o StripScriptBlocks(
                        SubSeq(s, j + Len(ScriptClose), Len(s)))

IsAngleBracket(c) == c \in {"<", ">"}
KeepChar(c) == ~IsAngleBracket(c)

\* replace(/[<>]/g, '')
StripAngleBrackets(s) == SelectSeq(s, KeepChar)

\* substring(0, 10000)
Cap(s) ==
    IF Len(s) > MAX_SANITIZED_LENGTH
    THEN SubSeq(s, 1, MAX_SANITIZED_LENGTH) ELSE s

\* sanitizedBody[key] for a string value
Sanitize(value) == Cap(Trim(StripAngleBrackets(StripScriptBlocks(value))))

InitSanitize ==
    /\ HandlerInit
    /\ env = [WEBHOOK_URL |-> TRUE, SUPABASE_URL |-> TRUE,
              SUPABASE_SERVICE_KEY |-> TRUE]
    /\ sanitizer \in {[pc |-> "value", value |-> v, once |-> <<>>,
                        twice |-> <<>>] : v \in SanitizeInputs}
    /\ cors = NoCors
    /\ clientFiles = <<>>
    /\ clientOp = NoOp

\* The value of a field is sanitized.
SanitizeValue ==
    /\ sanitizer.pc = "value"
    /\ sanitizer' = [sanitizer EXCEPT !.pc = "once",
                                      !.once = Sanitize(sanitizer.value)]
    /\ UNCHANGED <<rlVars, handlerVars, cors, clientFiles, clientOp>>

\* The sanitized value is sanitized again.
SanitizeAgain ==
    /\ sanitizer.pc = "once"
    /\ sanitizer' = [sanitizer EXCEPT !.pc = "twice",
                                      !.twice = Sanitize(sanitizer.once)]
    /\ UNCHANGED <<rlVars, handlerVars, cors, clientFiles, clientOp>>

NextSanitize == SanitizeValue \/ SanitizeAgain

SpecSanitize == InitSanitize /\ [][NextSanitize]_vars

\* ------------------------------------------------------------ CORS
\* Origins are made of up to MaxOriginPieces of these pieces.
MaxOriginPieces == 3

VercelApp == <<"v", "e", "r", "c", "e", "l", ".", "a", "p", "p">>

OriginPieces == {<<"h">>, <<".">>, <<"e">>, VercelApp}

RECURSIVE OriginsOf(_)
OriginsOf(n) ==
    IF n = 0 THEN {<<>>}
    ELSE OriginsOf(n - 1)
         \cup {s \o p : s \in OriginsOf(n - 1), p \in OriginPieces}

\* request.headers.get('origin') || '': the empty string when absent
Origins == OriginsOf(MaxOriginPieces)

\* ALLOWED_ORIGINS: the entries of the environment variable, none empty
AllowedOriginLists ==
    {<<>>, <<(<<"h">>)>>, <<(<<"h">>), (<<"e", ".", "e">>)>>,
     <<(<<"e", ".", "e">>), (<<"h">>)>>}

\* String.prototype.includes
StringIncludes(s, sub) ==
    \E i \in 1..(Len(s) - Len(sub) + 1) :
        SubSeq(s, i, i + Len(sub) - 1) = sub

\* Array.prototype.includes
ArrayIncludes(list, x) == \E i \in 1..Len(list) : list[i] = x

\* isAllowed of getCorsHeaders
IsAllowed(allowed, origin) ==
    \/ Len(allowed) = 0
    \/ ArrayIncludes(allowed, origin)
    \/ StringIncludes(origin, VercelApp)

\* 'Access-Control-Allow-Origin' of getCorsHeaders
AccessControlAllowOrigin(allowed, origin) ==
    IF IsAllowed(allowed, origin) THEN origin
    ELSE IF allowed # <<>> THEN allowed[1] ELSE <<"*">>

InitCors ==
    /\ HandlerInit
    /\ env = [WEBHOOK_URL |-> TRUE, SUPABASE_URL |-> TRUE,
              SUPABASE_SERVICE_KEY |-> TRUE]
    /\ sanitizer = NoSanitizer
    /\ cors \in {[pc |-> "request", ALLOWED_ORIGINS |-> l, origin |-> o,
                   AccessControlAllowOrigin |-> <<>>] :
                      l \in AllowedOriginLists, o \in Origins}
    /\ clientFiles = <<>>
    /\ clientOp = NoOp

\* The handler computes the CORS headers of its responses.
getCorsHeaders ==
    /\ cors.pc = "request"
    /\ cors' = [cors EXCEPT
           !.pc = "headers",
           !.AccessControlAllowOrigin =
               AccessControlAllowOrigin(cors.ALLOWED_ORIGINS, cors.origin)]
    /\ UNCHANGED <<rlVars, handlerVars, sanitizer, clientFiles, clientOp>>

NextCors == getCorsHeaders

SpecCors == InitCors /\ [][NextCors]_vars

\* ------------------------------------------------------------ client form
\* Categories of the upload zones, and the files a user picks: newFile with
\* its random id and the name of the File.
ClientCategories == {"financialInfo", "rentRoll", "t12"}
ClientIds == {"id1", "id2"}
ClientFileNames == {"a.pdf", "b.pdf"}

\* prev.filter(f => f.category !== category)
WithoutCategory(prev, category) ==
    SelectSeq(prev, LAMBDA f : f.category # category)

\* (variant: the new file is appended, the old one of the category stays)
FilesAfterUpload_Append(prev, newFile) == Append(prev, newFile)

\* the updater of setFiles in handleFileUpload
FilesAfterUpload(prev, newFile) ==
    Append(WithoutCategory(prev, newFile.category), newFile)

\* the updater of setFiles in handleFileRemove
FilesAfterRemove(prev, category) == WithoutCategory(prev, category)

InitClient ==
    /\ HandlerInit
    /\ env = [WEBHOOK_URL |-> TRUE, SUPABASE_URL |-> TRUE,
              SUPABASE_SERVICE_KEY |-> TRUE]
    /\ sanitizer = NoSanitizer
    /\ cors = NoCors
    /\ clientFiles = <<>>
    /\ clientOp = NoOp

handleFileUpload(id, name, category) ==
    LET newFile == [id |-> id, name |-> name, category |-> category]
    IN  /\ clientFiles' = FilesAfterUpload(clientFiles, newFile)
        /\ clientOp' = [op |-> "upload", category |-> category,
                        newFile |-> newFile, prev |-> clientFiles]
        /\ UNCHANGED <<rlVars, handlerVars, sanitizer, cors>>

handleFileRemove(category) ==
    /\ clientFiles' = FilesAfterRemove(clientFiles, category)
    /\ clientOp' = [op |-> "remove", category |-> category,
                    prev |-> clientFiles]
    /\ UNCHANGED <<rlVars, handlerVars, sanitizer, cors>>

NextClient ==
    \/ \E id \in ClientIds, name \in ClientFileNames,
          category \in ClientCategories :
            handleFileUpload(id, name, category)
    \/ \E category \in ClientCategories : handleFileRemove(category)

SpecClient == InitClient /\ [][NextClient]_vars

\* ------------------------------------------------ claims, rate limiter
\* Indices of the allowed calls of a log.
AllowedIn(log) == {j \in 1..Len(log) : log[j].allowed}

\* C1: of the calls a caller makes within 60 seconds of its first call, the
\* first 10 are allowed and the 11th is denied with allowed=false and
\* remaining=0, whatever other callers do in between.
C1_FirstTenAllowedEleventhDenied ==
    \A k \in Keys :
        \A i \in 1..Len(callLog[k]) :
            callLog[k][i].t - callLog[k][1].t <= RATE_LIMIT_WINDOW_MS =>
                /\ i <= RATE_LIMIT_MAX_REQUESTS => callLog[k][i].allowed
                /\ i = RATE_LIMIT_MAX_REQUESTS + 1 =>
                        /\ ~callLog[k][i].allowed
                        /\ callLog[k][i].remaining = 0

\* C1 witness: caller "a" made its 11th call exactly 60 s after its first,
\* with a call of the other caller in between.
C1_Witness ==
    /\ Len(callLog["a"]) >= RATE_LIMIT_MAX_REQUESTS + 1
    /\ callLog["a"][RATE_LIMIT_MAX_REQUESTS + 1].t
           = callLog["a"][1].t + RATE_LIMIT_WINDOW_MS
    /\ \E j \in 1..Len(callLog["unknown"]) :
           /\ callLog["unknown"][j].t > callLog["a"][1].t
           /\ callLog["unknown"][j].t
                  <= callLog["a"][RATE_LIMIT_MAX_REQUESTS + 1].t

\* C2 (as stated): sliding window; in every interval of 60 seconds, wherever
\* it starts, at most 10 of a caller's calls are allowed.
C2_SlidingWindow ==
    \A k \in Keys :
        \A i \in 1..Len(callLog[k]) :
            Cardinality({j \in AllowedIn(callLog[k]) :
                           /\ j >= i
                           /\ callLog[k][j].t - callLog[k][i].t
                                  < RATE_LIMIT_WINDOW_MS})
                <= RATE_LIMIT_MAX_REQUESTS

\* C2 (amended): fixed window; every allowed call falls in the window
\* [T, T + 60 s] of a window start T of the caller's entry, and at most 10
\* calls are allowed per window start.
C2_FixedWindow ==
    \A k \in Keys :
        \A i \in AllowedIn(callLog[k]) :
            /\ callLog[k][i].start <= callLog[k][i].t
            /\ callLog[k][i].t <= callLog[k][i].start + RATE_LIMIT_WINDOW_MS
            /\ Cardinality({j \in AllowedIn(callLog[k]) :
                              callLog[k][j].start = callLog[k][i].start})
                   <= RATE_LIMIT_MAX_REQUESTS

\* C2 witness: a full window of 10 allowed calls followed, less than 60 s
\* after its last allowed call, by an allowed call of the next window.
C2_Witness ==
    \E k \in Keys :
        \E i, j \in AllowedIn(callLog[k]) :
            /\ i < j
            /\ callLog[k][i].count = RATE_LIMIT_MAX_REQUESTS
            /\ callLog[k][j].start > callLog[k][i].start
            /\ callLog[k][j].t - callLog[k][i].t < RATE_LIMIT_WINDOW_MS

\* C3: the first call made more than 60 s after the window start of the
\* caller's entry is allowed with remaining=9 and starts a fresh window of
\* count 1; a call made earlier than that, allowed or denied, leaves the
\* window start where it was.
C3_ResetAfterWindow ==
    \A k \in Keys :
        \A i \in 1..Len(callLog[k]) - 1 :
            LET prev == callLog[k][i]
                call == callLog[k][i + 1]
            IN  IF call.t - prev.start > RATE_LIMIT_WINDOW_MS
                THEN /\ call.allowed
                     /\ call.remaining = RATE_LIMIT_MAX_REQUESTS - 1
                     /\ call.count = 1
                     /\ call.start = call.t
                ELSE call.start = prev.start

\* C3 witness: a window with 10 allowed calls and a denied one, then a call
\* 60 s + 1 ms after the window start.
C3_Witness ==
    \E k \in Keys :
        \E i \in 1..Len(callLog[k]) - 1 :
            /\ ~callLog[k][i].allowed
            /\ callLog[k][i + 1].t
                   = callLog[k][i].start + RATE_LIMIT_WINDOW_MS + 1
            /\ callLog[k][i + 1].allowed

\* ----------------------------------------------------- claims, handler
ConfigMissing ==
    ~env.WEBHOOK_URL \/ ~env.SUPABASE_URL \/ ~env.SUPABASE_SERVICE_KEY

\* The caller of the request has used up its window.
CallerAtLimit ==
    rateLimitStore[ClientIp(request)].count = RATE_LIMIT_MAX_REQUESTS

NoExternalCall == storageCalls = <<>> /\ webhookCalls = <<>>

\* What checkRateLimit returns when it denies.
RateLimitDenied == [allowed |-> FALSE, remaining |-> 0]

\* C4: an OPTIONS request gets 204 with no body, whatever the configuration
\* and whatever the caller's rate-limit state.
C4_PreflightAlways204 ==
    (pc = "done" /\ request.method = "OPTIONS") =>
        /\ response.status = 204
        /\ ~response.body

\* C4 witness: preflight answered while the configuration is missing and the
\* caller is at its limit.
C4_Witness ==
    /\ pc = "done"
    /\ request.method = "OPTIONS"
    /\ response.status = 204
    /\ ConfigMissing
    /\ CallerAtLimit

GateOrder == <<"preflight", "method", "rateLimit", "config", "parse",
               "validate", "upload", "webhook">>
GateRank(g) == CHOOSE i \in 1..Len(GateOrder) : GateOrder[i] = g

\* Each gate evaluated is the successor of the one before; only the upload
\* gate is evaluated again, once per file.
GatesInOrder ==
    /\ gates # <<>> => gates[1] = "preflight"
    /\ \A i \in 1..Len(gates) - 1 :
          \/ GateRank(gates[i + 1]) = GateRank(gates[i]) + 1
          \/ gates[i] = "upload" /\ gates[i + 1] = "upload"

\* The statuses a gate answers with.
GateStatuses(g) ==
    CASE g = "preflight" -> {204}
      [] g = "method" -> {405}
      [] g = "rateLimit" -> {429}
      [] g = "config" -> {500}
      [] g = "parse" -> {400}
      [] g = "validate" -> {400}
      [] g = "upload" -> {500}
      [] g = "webhook" -> {200, 500, 502}

\* C5: the gates are evaluated in the order preflight, method, rate limit,
\* configuration, parse, field validation, upload, webhook; the response is
\* that of the last gate evaluated: 405 for another method even at the
\* limit, 429 with Retry-After 60 for a denied POST even without
\* configuration, 500 for an allowed POST without configuration even with an
\* invalid body; a gate that answered is the last one evaluated.
C5_GatesInOrder ==
    /\ GatesInOrder
    /\ pc = "done" =>
        /\ response.status \in GateStatuses(gates[Len(gates)])
        /\ request.method \notin {"OPTIONS", "POST"} => response.status = 405
        /\ (request.method = "POST" /\ rateLimit = RateLimitDenied) =>
               /\ response.status = 429
               /\ response.RetryAfterHeader = "60"
               /\ gates[Len(gates)] = "rateLimit"
        /\ (request.method = "POST" /\ rateLimit.allowed
               /\ ConfigMissing) =>
               /\ response.status = 500
               /\ gates[Len(gates)] = "config"
               /\ NoExternalCall
    /\ pc \in {"formData", "upload", "webhook"} => response = NoResponse

\* C5 witness: a POST denied by the rate limiter while the configuration is
\* missing and its body is not multipart.
C5_Witness ==
    /\ pc = "done"
    /\ request.method = "POST"
    /\ response.status = 429
    /\ CallerAtLimit
    /\ ConfigMissing
    /\ request.body.kind = "notMultipart"

\* C6: when the handler parses a body one of whose file parts is too large,
\* of a type outside the allow-list or of an unknown category, the response
\* is 400 with the message of the first such part in arrival order; and no
\* request with such a part causes a storage upload or a webhook call.
C6_AttachmentFailFast ==
    (request # NoRequest /\ request.method = "POST"
        /\ BadParts(request.body.parts) # {}) =>
        /\ NoExternalCall
        /\ pc \notin {"upload", "webhook"}
        /\ (pc = "done" /\ gates[Len(gates)] = "parse") =>
            LET first == CHOOSE i \in BadParts(request.body.parts) :
                            \A j \in BadParts(request.body.parts) : i <= j
                part == request.body.parts[first]
            IN  /\ response.status = 400
                /\ response.details = <<>>
                /\ response.error =
                     IF part.size > 25 * 1024 * 1024
                     THEN <<"File", PartName(first),
                            "exceeds maximum size of 25MB">>
                     ELSE IF part.type \notin ALLOWED_MIME_TYPES
                     THEN <<"File type", part.type, "is not allowed for",
                            PartName(first)>>
                     ELSE <<"Invalid file category:", part.fieldname>>

\* C6 witness: an accepted part followed by a rejected one; the response is
\* the 400 of the parse and nothing was uploaded, the accepted part included.
C6_Witness ==
    /\ pc = "done"
    /\ request.method = "POST"
    /\ gates[Len(gates)] = "parse"
    /\ Len(request.body.parts) >= 2
    /\ 1 \notin BadParts(request.body.parts)
    /\ 2 \in BadParts(request.body.parts)
    /\ response.status = 400
    /\ NoExternalCall

\* File parts of the request in flight.
RequestParts == IF request = NoRequest THEN <<>> ELSE request.body.parts

\* Number of financialInfo parts of the request.
FinancialInfoParts ==
    Cardinality({i \in 1..Len(RequestParts) :
                    RequestParts[i].fieldname = "financialInfo"})

RequiredFileMessage == "Financial Information document is required"

InDetails(msg) ==
    \E i \in 1..Len(response.details) : response.details[i] = msg

\* C7 (as stated): a submission without a financialInfo attachment yields
\* 400 with the required-file message among the details; stated for the
\* POSTs that passed the rate-limit and configuration gates and whose body
\* is multipart.
C7_MissingFinancialInfoAlways400 ==
    (pc = "done" /\ request.method = "POST" /\ rateLimit.allowed
        /\ ~ConfigMissing /\ request.body.kind = "multipart"
        /\ FinancialInfoParts = 0) =>
        /\ response.status = 400
        /\ InDetails(RequiredFileMessage)

\* C7 (amended): a submission without a financialInfo attachment that
\* reaches field validation (every file part was accepted) yields 400 with
\* the required-file message among the details, whatever its fields.
C7_MissingFinancialInfoValidated ==
    (pc = "done" /\ "validate" \in {gates[i] : i \in 1..Len(gates)}
        /\ FinancialInfoParts = 0) =>
        /\ response.status = 400
        /\ response.error = <<"Validation failed">>
        /\ InDetails(RequiredFileMessage)

\* C7 witness: the required-file message next to a field error.
C7_Witness ==
    /\ pc = "done"
    /\ FinancialInfoParts = 0
    /\ Len(RequestParts) > 0
    /\ response.status = 400
    /\ InDetails(RequiredFileMessage)
    /\ InDetails("Invalid email format")

ReachedUpload == pc \in {"upload", "webhook"} \/ storageCalls # <<>>

\* C8 (as stated): a submission reaches the upload step only if it has
\* exactly one financialInfo part.
C8_ExactlyOneFinancialInfo == ReachedUpload => FinancialInfoParts = 1

\* C8 (amended): a submission reaches the upload step only if it has at
\* least one financialInfo part; one with none ends in 400.
C8_AtLeastOneFinancialInfo ==
    /\ ReachedUpload => FinancialInfoParts >= 1
    /\ (pc = "done" /\ "validate" \in {gates[i] : i \in 1..Len(gates)}
           /\ FinancialInfoParts = 0) => response.status = 400

\* C8 witness: a submission with two financialInfo parts, both uploaded.
C8_Witness ==
    /\ FinancialInfoParts = 2
    /\ Len(storageCalls) = 2
    /\ storageCalls[1].category = "financialInfo"
    /\ storageCalls[2].category = "financialInfo"

\* The rules of field validation a submission violates, by message.
ViolatedRules ==
    {m \in {"Property Name is required and must be at least 2 characters"} :
        fields.propertyName \in {Undefined, <<>>}
        \/ Len(Trim(fields.propertyName)) < 2}
    \cup {m \in {"Property Type is required"} :
        fields.propertyType \in {Undefined, <<>>}}
    \cup {m \in {"Your Name is required and must be at least 2 characters"} :
        fields.submitterName \in {Undefined, <<>>}
        \/ Len(Trim(fields.submitterName)) < 2}
    \cup {m \in {"Your Phone is required"} :
        fields.submitterPhone \in {Undefined, <<>>}}
    \cup {m \in {"Your Email is required"} :
        fields.submitterEmail \in {Undefined, <<>>}}
    \cup {m \in {"Invalid email format"} :
        /\ fields.submitterEmail \notin {Undefined, <<>>}
        /\ ~EmailRegexTest(fields.submitterEmail)}
    \cup {m \in {"Final acknowledgement is required"} :
        fields.finalAcknowledgement # <<"t", "r", "u", "e">>}
    \cup {m \in {RequiredFileMessage} : FinancialInfoParts = 0}

\* C9: once the body parsed, the details of the 400 response hold exactly
\* one message per violated rule, not only the first; and a response with
\* details comes with no storage upload and no webhook call.
C9_AllErrorsAccumulated ==
    /\ (pc # "idle" /\ fields # NoFields) =>
        IF ViolatedRules # {}
        THEN /\ pc = "done"
             /\ response.status = 400
             /\ {response.details[i] : i \in 1..Len(response.details)}
                    = ViolatedRules
             /\ Len(response.details) = Cardinality(ViolatedRules)
        ELSE response = NoResponse \/ response.details = <<>>
    /\ (pc = "done" /\ response.details # <<>>) =>
        /\ response.status = 400
        /\ NoExternalCall

\* C9 witness: every rule violated at once, seven messages.
C9_Witness ==
    /\ pc = "done"
    /\ response.status = 400
    /\ Len(response.details) = 7
    /\ NoExternalCall

\* C10: the storage calls of a request are its accepted files in arrival
\* order, one call per file, none repeated; a failed call is the last one,
\* the webhook is not called and the response is 500.
C10_SequentialUploads ==
    /\ Len(storageCalls) <= Len(files)
    /\ \A i \in 1..Len(storageCalls) :
          /\ storageCalls[i].originalname = files[i].originalname
          /\ storageCalls[i].category = files[i].fieldname
          /\ storageCalls[i].outcome # "ok" =>
                /\ i = Len(storageCalls)
                /\ webhookCalls = <<>>
                /\ pc = "done"
                /\ response.status = 500
                /\ response.error
                      = <<"Failed to upload file:", files[i].originalname>>
    /\ Len(uploadedFiles)
          = Cardinality({i \in 1..Len(storageCalls) :
                            storageCalls[i].outcome = "ok"})
    /\ webhookCalls # <<>> => Len(uploadedFiles) = Len(files)
    /\ pc = "upload" => Len(storageCalls) < Len(files)

\* C10 witness: the first of two files is refused by the storage with a
\* non-2xx answer; the second is never sent.
C10_Witness ==
    /\ pc = "done"
    /\ Len(files) = 2
    /\ Len(storageCalls) = 1
    /\ storageCalls[1].outcome = "notOk"
    /\ webhookCalls = <<>>
    /\ response.status = 500

\* ------------------------------------------------------------ C11
\* Every storage request of the invocation is the upload of one part: the
\* i-th request is a POST of the i-th parsed file, and it succeeded for the
\* files in uploadedFiles.  The handler issues no other storage request.
StorageCallsAreUploads ==
    /\ Len(storageCalls) <= Len(files)
    /\ \A i \in 1..Len(storageCalls) :
           /\ storageCalls[i].method = "POST"
           /\ storageCalls[i].key = FilePath(files[i], now)
    /\ \A i \in 1..Len(uploadedFiles) :
           /\ storageCalls[i].outcome = "ok"
           /\ storageCalls[i].key = uploadedFiles[i].key

WebhookAnsweredNon2xx ==
    /\ webhookCalls # <<>>
    /\ webhookCalls[Len(webhookCalls)].outcome = "notOk"

\* C11: when every upload succeeded and the webhook answers with a non-2xx
\* status, the response is 502 with success = false, the webhook was called
\* once only, and the storage saw nothing but the successful uploads of the
\* request's files (no delete, no rollback): the files stay in storage.
C11_WebhookNon2xxIs502NoRollback ==
    WebhookAnsweredNon2xx =>
        /\ pc = "done"
        /\ response.status = 502
        /\ response.success = FALSE
        /\ response.error =
               <<"Failed to process submission. Please try again.">>
        /\ Len(webhookCalls) = 1
        /\ Len(uploadedFiles) = Len(files)
        /\ Len(storageCalls) = Len(files)
        /\ StorageCallsAreUploads

C11_Witness ==
    /\ WebhookAnsweredNon2xx
    /\ response.status = 502
    /\ Len(storageCalls) = 2
    /\ Len(uploadedFiles) = 2

\* ------------------------------------------------------------ C12
\* The request is a POST that passed the rate-limit and configuration gates.
PassedGates ==
    /\ request.method = "POST"
    /\ rateLimit.allowed
    /\ ~ConfigMissing

\* The body parsed and validated with no error.
ParsedAndValid ==
    /\ ParseError(request.body) = NoError
    /\ fields # NoFields
    /\ ViolatedRules = {}

\* Every part of the request was uploaded, each upload answered 2xx.
AllUploadsOk ==
    /\ Len(storageCalls) = Len(RequestParts)
    /\ \A i \in 1..Len(storageCalls) : storageCalls[i].outcome = "ok"

\* The webhook was called once, after the last upload, and answered 2xx.
WebhookOnceOk ==
    /\ Len(webhookCalls) = 1
    /\ webhookCalls[1].outcome = "ok"
    /\ gates # <<>>
    /\ gates[Len(gates)] = "webhook"
    /\ \A i \in 1..Len(gates) : gates[i] = "webhook" => i = Len(gates)

\* C12: a finished invocation answers 200 with success = true exactly when
\* the request is a POST that passed the rate-limit and configuration gates,
\* parsed and validated with no error, had every attachment uploaded, and
\* the webhook, called once after the last upload, answered 2xx; the body
\* the webhook received then has files.financialInfo.url equal to the URL
\* the storage upload of a financialInfo attachment returned.
C12_SuccessIffAllStepsOk ==
    pc = "done" =>
        /\ (response.status = 200 /\ response.success)
               <=> (PassedGates /\ ParsedAndValid /\ AllUploadsOk
                       /\ WebhookOnceOk)
        /\ response.status = 200 =>
               LET sent == webhookCalls[1].payload
               IN  /\ "financialInfo" \in DOMAIN sent.files
                   /\ \E i \in 1..Len(storageCalls) :
                          /\ storageCalls[i].category = "financialInfo"
                          /\ storageCalls[i].outcome = "ok"
                          /\ sent.files["financialInfo"].url
                                 = PublicUrl(storageCalls[i].key)

C12_Witness ==
    /\ pc = "done"
    /\ response.status = 200
    /\ response.success
    /\ Len(storageCalls) = 2
    /\ storageCalls[1].category # "financialInfo"
    /\ storageCalls[2].category = "financialInfo"

\* ------------------------------------------------------------ C13
\* C13: sanitizing a sanitized value returns it unchanged, for every input
\* string; and a sanitized value holds neither "<" nor ">".
C13_SanitizeIdempotent ==
    /\ sanitizer.pc \in {"once", "twice"} =>
           \A i \in 1..Len(sanitizer.once) :
               ~IsAngleBracket(sanitizer.once[i])
    /\ sanitizer.pc = "twice" => sanitizer.twice = sanitizer.once

\* ------------------------------------------------------------ C14
\* String.prototype.endsWith
EndsWith(s, suffix) ==
    /\ Len(s) >= Len(suffix)
    /\ SubSeq(s, Len(s) - Len(suffix) + 1, Len(s)) = suffix

\* The origin is one the claim lets the header echo.
OriginMayBeEchoed ==
    \/ ArrayIncludes(cors.ALLOWED_ORIGINS, cors.origin)
    \/ EndsWith(cors.origin, VercelApp)

\* C14: with a non-empty allow-list the Access-Control-Allow-Origin header
\* echoes the request's origin only when the origin is an entry of the
\* allow-list or ends with the preview-domain suffix; for every other origin
\* the header is the first configured origin and not the request's origin.
C14_EchoOnlyExactOrSuffix ==
    (cors.pc = "headers" /\ cors.ALLOWED_ORIGINS # <<>>) =>
        IF OriginMayBeEchoed
        THEN cors.AccessControlAllowOrigin = cors.origin
        ELSE /\ cors.AccessControlAllowOrigin = cors.ALLOWED_ORIGINS[1]
             /\ cors.AccessControlAllowOrigin # cors.origin

\* ------------------------------------------------------------ C15
\* Caller k makes no call in the step.
NoCallBy(k) == callLog'[k] = callLog[k]

\* C15 (as stated): a checkRateLimit call leaves the entry of every caller
\* other than its own unchanged, neither modified nor deleted.
C15_OtherEntriesUnchanged ==
    [][\A k \in Keys :
          NoCallBy(k) => rateLimitStore'[k] = rateLimitStore[k]]_vars

\* C15 (amended): a checkRateLimit call never modifies the entry of another
\* caller, and deletes it exactly when that entry has expired (its window
\* start is more than 60 s before the call).
C15_OtherEntriesUnchangedOrPruned ==
    [][\A k \in Keys :
          NoCallBy(k) =>
              IF /\ callLog' # callLog
                 /\ rateLimitStore[k] # NoEntry
                 /\ rateLimitStore[k].timestamp < now - RATE_LIMIT_WINDOW_MS
              THEN rateLimitStore'[k] = NoEntry
              ELSE rateLimitStore'[k] = rateLimitStore[k]]_vars

\* C15 witness: the entry of caller "unknown" is gone although it made a
\* call: a later call of caller "a" deleted it.
C15_Witness ==
    /\ callLog["unknown"] # <<>>
    /\ rateLimitStore["unknown"] = NoEntry
    /\ rateLimitStore["a"] # NoEntry
    /\ rateLimitStore["a"].timestamp
           > callLog["unknown"][Len(callLog["unknown"])].t
               + RATE_LIMIT_WINDOW_MS

\* ------------------------------------------------------------ C16
\* Positions of the files of a category in a list.
OfCategory(list, category) ==
    {i \in 1..Len(list) : list[i].category = category}

\* The files of the other categories, in list order.
OtherFiles(list, category) ==
    LET keep == {i \in 1..Len(list) : list[i].category # category}
        Rank(i) == Cardinality({j \in keep : j <= i})
    IN  [n \in 1..Cardinality(keep) |->
            list[CHOOSE i \in keep : Rank(i) = n]]

\* C16: after any sequence of uploads and removes the files list holds at
\* most one file per category; after an upload the one file of the category
\* is the newly uploaded one, after a remove the category has no file; and
\* both leave the files of every other category as they were.
C16_OneFilePerCategory ==
    /\ \A c \in ClientCategories :
           Cardinality(OfCategory(clientFiles, c)) <= 1
    /\ clientOp.op = "upload" =>
           /\ \E i \in 1..Len(clientFiles) :
                  /\ OfCategory(clientFiles, clientOp.category) = {i}
                  /\ clientFiles[i] = clientOp.newFile
           /\ OtherFiles(clientFiles, clientOp.category)
                  = OtherFiles(clientOp.prev, clientOp.category)
    /\ clientOp.op = "remove" =>
           /\ OfCategory(clientFiles, clientOp.category) = {}
           /\ OtherFiles(clientFiles, clientOp.category)
                  = OtherFiles(clientOp.prev, clientOp.category)

\* C16 witness: an upload replaced the file of its category while the other
\* two categories have files.
C16_Witness ==
    /\ clientOp.op = "upload"
    /\ Len(clientOp.prev) = 3
    /\ \E i \in 1..2 :
           /\ clientOp.prev[i].category = clientOp.category
           /\ clientOp.prev[i] # clientOp.newFile
    /\ Len(clientFiles) = 3

\* ------------------------------------------------------------ C17
\* fileUrls of a payload lists the URLs the storage uploads of the request
\* returned, in upload order.
FileUrlsInUploadOrder(sent) ==
    /\ Len(sent.fileUrls) = Len(storageCalls)
    /\ \A i \in 1..Len(storageCalls) :
           /\ storageCalls[i].outcome = "ok"
           /\ sent.fileUrls[i] = PublicUrl(storageCalls[i].key)

\* files of a payload has one entry per uploaded category, made of the
\* name and URL of an upload of that category.
FilesMapUploads(sent) ==
    /\ DOMAIN sent.files
           = {storageCalls[i].category : i \in 1..Len(storageCalls)}
    /\ \A c \in DOMAIN sent.files :
           \E i \in 1..Len(storageCalls) :
               /\ storageCalls[i].category = c
               /\ sent.files[c].originalname = storageCalls[i].originalname
               /\ sent.files[c].url = PublicUrl(storageCalls[i].key)

\* C17 (as stated): fileUrls lists every uploaded URL in upload order, files
\* maps each uploaded category to an upload of it, and the URL of every
\* uploaded attachment is found both in fileUrls and in the files mapping.
C17_EveryUrlInBoth ==
    \A n \in 1..Len(webhookCalls) :
        LET sent == webhookCalls[n].payload
        IN  /\ FileUrlsInUploadOrder(sent)
            /\ FilesMapUploads(sent)
            /\ \A i \in 1..Len(storageCalls) :
                   /\ \E j \in 1..Len(sent.fileUrls) :
                          sent.fileUrls[j] = PublicUrl(storageCalls[i].key)
                   /\ \E c \in DOMAIN sent.files :
                          sent.files[c].url = PublicUrl(storageCalls[i].key)

\* C17 (amended): fileUrls lists every uploaded URL in upload order; files
\* maps each uploaded category to the last uploaded attachment of that
\* category, so of several parts of one category only the last is in files
\* and the earlier ones are found in fileUrls only.
C17_FilesKeepsLastOfCategory ==
    \A n \in 1..Len(webhookCalls) :
        LET sent == webhookCalls[n].payload
        IN  /\ FileUrlsInUploadOrder(sent)
            /\ FilesMapUploads(sent)
            /\ \A i \in 1..Len(storageCalls) :
                   (\E c \in DOMAIN sent.files :
                       sent.files[c].url = PublicUrl(storageCalls[i].key))
                   <=> (\A j \in 1..Len(storageCalls) :
                           storageCalls[j].category = storageCalls[i].category
                               => j <= i)

\* C17 witness: the webhook received the payload of a request with two
\* financialInfo parts.
C17_Witness ==
    /\ Len(webhookCalls) = 1
    /\ Len(storageCalls) = 2
    /\ storageCalls[1].category = "financialInfo"
    /\ storageCalls[2].category = "financialInfo"
    /\ Len(webhookCalls[1].payload.fileUrls) = 2
    /\ webhookCalls[1].payload.files["financialInfo"].url
           = PublicUrl(storageCalls[2].key)

\* ------------------------------------------------------------ C18
\* The count of a caller in its current window: 0 when the caller has no
\* entry or only an expired one.
WindowCount(store, ip, t) ==
    IF store[ip] = NoEntry \/ Expired(store[ip], t) THEN 0
    ELSE store[ip].count

\* How a handler entry changes the rate-limit table.
QuotaAtGate ==
    (pc = "idle" /\ pc' # "idle") =>
        LET ip == ClientIp(request')
        IN  IF request'.method # "POST"
            THEN rateLimitStore' = rateLimitStore
            ELSE IF rateLimit'.allowed
            THEN /\ WindowCount(rateLimitStore', ip, now)
                        = WindowCount(rateLimitStore, ip, now) + 1
                 /\ rateLimit'.remaining
                        = RATE_LIMIT_MAX_REQUESTS - rateLimitStore'[ip].count
            ELSE /\ response'.status = 429
                 /\ rateLimitStore'[ip] = rateLimitStore[ip]
                 /\ WindowCount(rateLimitStore', ip, now)
                        = WindowCount(rateLimitStore, ip, now)

\* What the steps after the gate, up to the response, do with the table.
QuotaAfterGate ==
    (pc # "idle" /\ pc' # "idle") =>
        /\ rateLimitStore' = rateLimitStore
        /\ rateLimit' = rateLimit
        /\ response'.status = 200 =>
               response'.XRateLimitRemaining =
                   NumStr(RATE_LIMIT_MAX_REQUESTS
                              - rateLimitStore'[ClientIp(request')].count)
        /\ (pc' = "done" /\ rateLimit'.allowed) =>
               /\ response'.status \in {200, 400, 500, 502}
               /\ rateLimitStore'[ClientIp(request')].count
                      = RATE_LIMIT_MAX_REQUESTS - rateLimit'.remaining

\* C18: a POST that reaches the rate-limit gate and is allowed raises the
\* count of the caller's window by exactly one, at the gate, and no later
\* step of the invocation changes it, whether it ends in 200, 400, 500 or
\* 502; OPTIONS and other non-POST requests leave the table unchanged, a
\* denied request leaves the caller's entry and count unchanged; and the
\* X-RateLimit-Remaining header of a 200 response is 10 minus the caller's
\* count after the increment.
C18_QuotaConsumedAtGate == [][QuotaAtGate /\ QuotaAfterGate]_vars

\* C18 witness: a request answered 502 after time has passed, with the
\* second unit of the caller's quota consumed.
C18_Witness ==
    /\ pc = "done"
    /\ response.status = 502
    /\ rateLimit.remaining = RATE_LIMIT_MAX_REQUESTS - 2
    /\ rateLimitStore[ClientIp(request)].count = 2
    /\ rateLimitStore[ClientIp(request)].timestamp > RATE_LIMIT_WINDOW_MS

\* ------------------------------------------------------------ C19
ResponseStatuses == {200, 204, 400, 405, 429, 500, 502}

\* The invocation awaits an external call.
Awaiting == pc \in {"formData", "upload", "webhook"}

StorageThrew ==
    /\ storageCalls # <<>>
    /\ storageCalls[Len(storageCalls)].outcome = "throws"

WebhookThrew ==
    /\ webhookCalls # <<>>
    /\ webhookCalls[Len(webhookCalls)].outcome = "throws"

\* A finished invocation has a response of a listed status; a thrown
\* storage request gives the 500 of a failed upload, a thrown webhook
\* request the generic 500; an invocation that awaits has no response yet.
ResponseWellFormed ==
    /\ pc = "done" =>
           /\ response # NoResponse
           /\ response.status \in ResponseStatuses
    /\ Awaiting => response = NoResponse
    /\ StorageThrew =>
           /\ pc = "done"
           /\ response.status = 500
           /\ response.success = FALSE
           /\ Head(response.error) = "Failed to upload file:"
           /\ webhookCalls = <<>>
    /\ WebhookThrew =>
           /\ pc = "done"
           /\ response.status = 500
           /\ response.success = FALSE
           /\ response.error =
                  <<"An unexpected error occurred. Please try again.">>

\* A response, once returned, is the only one: the invocation takes no
\* further step but to end.
OneResponse ==
    response # NoResponse =>
        /\ pc = "done"
        /\ pc' = "idle"
        /\ response' = NoResponse

\* C19: when every external call returns or throws, every invocation ends
\* with exactly one response, whose status is one of 200, 204, 400, 405,
\* 429, 500, 502; a thrown storage request ends it with the 500 of a failed
\* upload, a thrown webhook request with the generic 500, and no invocation
\* is left without a response.
C19_EveryInvocationResponds ==
    /\ [](Awaiting => <>(pc = "done"))
    /\ []ResponseWellFormed
    /\ [][OneResponse]_vars

\* C19 witness: the webhook request threw after two uploads, and the
\* invocation ended with the generic 500.
C19_Witness ==
    /\ pc = "done"
    /\ WebhookThrew
    /\ Len(uploadedFiles) = 2
    /\ response.status = 500

====
